---- MODULE Spec2Model ----
(***************************************************************************)
(* Zoo / animal / user record service (Express + Mongoose).                *)
(*                                                                         *)
(* The document store is modelled as three keyed collections.  Every       *)
(* handler is one action: the requests of a run complete one after the     *)
(* other, each action being one whole request, from the authorization      *)
(* middleware to the response.                                             *)
(*                                                                         *)
(* Two handler families exist in the repository and both are modelled:     *)
(*   - the routers mounted by app.js (suffix Route), and                   *)
(*   - the exported controller functions (suffix Ctl).                     *)
(***************************************************************************)
EXTENDS Integers, Sequences, FiniteSets, TLC

\* ------------------------------------------------------------------ bounds
\* Number of animal / zoo / user documents ever inserted in a run.
MaxAnimals == 2
MaxZoos == 2
MaxUsers == 2
\* Requests served at the same time in a step-by-step run.
MaxRequests == 2
\* Longest "animals" array a client puts in a request body.
MaxList == 1
\* Hours the clock advances in a run.
MaxClock == 2

\* ------------------------------------------------------------------ values
\* A missing / null / undefined field or reference.
Null == -1
\* A reference field that a request body does not have at all.
Absent == -2
\* A well-formed ObjectId that was never assigned to any document.
NoSuchId == 0
\* An absent "animals" field of a request body (req.body.animals undefined).
NoList == << Null >>
\* An absent string field of a request body.
Undefined == "undefined"

Names == {"Leo"}
SpeciesSet == {"lion"}
ZooNames == {"City Zoo"}
Locations == {"Springfield"}

VARIABLES
    animals,        \* Animal collection: _id -> [name, species, zoo]
    zoos,           \* Zoo collection: _id -> [name, location, animals]
    nextAnimalId,   \* next fresh Animal _id
    nextZooId,      \* next fresh Zoo _id
    users,          \* User collection: _id -> [username, password]
    nextUserId,     \* next fresh User _id
    tokens,         \* tokens the server has issued (held by clients)
    now,            \* wall clock, in hours
    last,           \* the response to the latest request
    inflight,       \* the requests being served step by step: slot -> locals
    versions        \* __v of the zoo documents saved by such a request

vars == << animals, zoos, nextAnimalId, nextZooId, users, nextUserId, tokens, now, last,
           inflight, versions >>
habitat == << animals, zoos, nextAnimalId, nextZooId >>
identity == << users, nextUserId, tokens >>
pending == << inflight, versions >>

\* ------------------------------------------------------------------ helpers
RECURSIVE SortedSeq(_)
\* The documents of a find() come back in insertion order, which is _id order.
SortedSeq(S) ==
    IF S = {} THEN << >>
    ELSE LET m == CHOOSE x \in S : \A y \in S : x <= y
         IN << m >> \o SortedSeq(S \ {m})

Range(s) == { s[i] : i \in 1..Len(s) }

\* Array.prototype.filter(x => x !== a)
RECURSIVE Without(_, _)
Without(s, a) ==
    IF s = << >> THEN << >>
    ELSE IF Head(s) = a THEN Without(Tail(s), a)
         ELSE << Head(s) >> \o Without(Tail(s), a)

Count(s, a) == Cardinality({ i \in 1..Len(s) : s[i] = a })

SeqsUpTo(S, n) == UNION { [1..k -> S] : k \in 0..n }

\* Model.findById(id): the document or nothing; findById(undefined) finds nothing.
AnimalExists(a) == a \in DOMAIN animals
ZooExists(z) == z \in DOMAIN zoos

\* Identifiers a client can name: those of documents inserted so far (deleted or
\* not) and one that never existed.
KnownAnimalIds == (1..(nextAnimalId - 1)) \cup {NoSuchId}
KnownZooIds == (1..(nextZooId - 1)) \cup {NoSuchId}

\* The response to a request: the operation, the handler family that served it,
\* the HTTP status (0: no response was sent), the _id of the document a successful
\* response carries, the message of a failure, and, for a read, the _ids of the
\* documents listed.
Response(op, via, status, id) ==
    [op |-> op, via |-> via, status |-> status, id |-> id, msg |-> "", body |-> {}]
Failure(op, via, status, msg) ==
    [op |-> op, via |-> via, status |-> status, id |-> NoSuchId, msg |-> msg, body |-> {}]
Listing(op, via, status, id, ids) ==
    [op |-> op, via |-> via, status |-> status, id |-> id, msg |-> "", body |-> ids]

\* ------------------------------------------------------- identity & session
\* process.env.JWT_SECRET, and any other key a client may sign with.
JwtSecret == "JWT_SECRET"
OtherKey == "other key"
\* expiresIn: '1h'
TokenTTL == 1

Usernames == {"juan123", "ana"}
Passwords == {"pw1", "pw2"}
Salts == {"s1", "s2"}

\* bcrypt.hash(plain, salt): the salt is kept in the output, the digest is a
\* one-way function of salt and plaintext.
Hash(plain, salt) == [salt |-> salt, digest |-> << salt, plain >>]
\* bcrypt.compare(plain, hash): re-derive with the stored salt, compare.
Compare(plain, hash) == Hash(plain, hash.salt) = hash

\* jwt.sign(payload, key, { expiresIn: '1h' })
Sign(id, username, key) ==
    [kind |-> "bearer", id |-> id, username |-> username, iat |-> now, key |-> key]
\* Mutant of Verify: the signature is checked, the expiry is not.
VerifySignatureOnly(token) == token.key = JwtSecret

\* jwt.verify(token, process.env.JWT_SECRET): signature and expiry.
Verify(token) == token.key = JwtSecret /\ now < token.iat + TokenTTL

\* Authorization header values of a request.
NoHeader == [kind |-> "none", id |-> NoSuchId, username |-> Undefined, iat |-> 0, key |-> OtherKey]
EmptyBearer == [kind |-> "empty", id |-> NoSuchId, username |-> Undefined, iat |-> 0, key |-> OtherKey]
Forged(token) == [token EXCEPT !.key = OtherKey]
Headers == {NoHeader, EmptyBearer} \cup tokens \cup { Forged(t) : t \in tokens }

\* models/userModel: module.exports = { User, Post }.  A binding made by
\* require('../models/userModel') is the path taken into that object: the empty
\* path is the exports object itself, << "User" >> is the User model.
ModuleExports == {"User", "Post"}
IsModel(binding) == Len(binding) = 1 /\ binding[1] \in ModuleExports
\* const { User } = require('../models/userModel')   (middlewares/auth.js)
MiddlewareUser == << "User" >>
\* const User = require('../models/userModel')       (controllers/authController.js)
AuthControllerUser == << >>
\* const { User } = require('../models/userModel')   (the users router)
RouterUser == << "User" >>

\* authMiddleware: 0 = no response (the TypeError of header(...).replace on a
\* missing header is thrown before the try block), 401, 404, or NextHandler.
NextHandler == 1

\* Mutant of Authorize: the token alone decides, the user is not fetched again.
AuthorizeWithoutLookup(hdr) ==
    IF hdr.kind = "none" THEN 0
    ELSE IF hdr.kind = "empty" THEN 401
    ELSE IF ~Verify(hdr) THEN 401
    ELSE NextHandler

\* authMiddleware
Authorize(hdr) ==
    IF hdr.kind = "none" THEN 0
    ELSE IF hdr.kind = "empty" THEN 401
    ELSE IF ~Verify(hdr) THEN 401
    ELSE IF ~IsModel(MiddlewareUser) THEN 401
    ELSE IF hdr.id \notin DOMAIN users THEN 404
    ELSE NextHandler

\* Mutant of Passing: the routers are mounted with no middleware in front.
PassingUnguarded == Headers

\* The headers the middleware lets through.
Passing == { hdr \in Headers : Authorize(hdr) = NextHandler }

\* The message of the middleware's own answer.
RejectionMessage(hdr) ==
    IF Authorize(hdr) = 0 THEN ""
    ELSE IF hdr.kind = "empty" THEN "Autenticacion requerida"
    ELSE IF Authorize(hdr) = 404 THEN "Usuario no encontrado"
    ELSE "Token invalido"

\* A request the middleware stops: it answers itself (or, for status 0, nobody
\* does) and the route handler behind it does not run.
Rejected(hdr) ==
    /\ Authorize(hdr) # NextHandler
    /\ last' = Failure("Authorize", "route", Authorize(hdr), RejectionMessage(hdr))
    /\ UNCHANGED << habitat, identity, now, pending >>

\* Mutant of RegisterAccepts: the collection has no unique index on username.
RegisterAcceptsDuplicates(username, password) ==
    /\ username # Undefined
    /\ password # Undefined

\* bcrypt.hash(undefined, 10) throws; save() fails on a missing required field
\* and on the unique index of username.
RegisterAccepts(username, password) ==
    /\ username # Undefined
    /\ password # Undefined
    /\ \A u \in DOMAIN users : users[u].username # username

\* error.message of a refused registration: bcrypt.hash runs first, then the
\* schema validation of save(), then the insert against the unique index.
RegisterError(username, password) ==
    IF password = Undefined THEN "Illegal arguments"
    ELSE IF username = Undefined THEN "User validation failed"
    ELSE "E11000 duplicate key"

\* POST /api/users
Register(username, password) ==
    /\ IF ~RegisterAccepts(username, password)
       THEN /\ last' = Failure("Register", "route", 400, RegisterError(username, password))
            /\ UNCHANGED << identity >>
       ELSE \E salt \in Salts :
            /\ nextUserId <= MaxUsers
            /\ users' = [u \in DOMAIN users \cup {nextUserId} |->
                            IF u = nextUserId
                            THEN [username |-> username, password |-> Hash(password, salt)]
                            ELSE users[u]]
            /\ tokens' = tokens \cup {Sign(nextUserId, Undefined, JwtSecret)}
            /\ nextUserId' = nextUserId + 1
            /\ last' = Response("Register", "route", 201, nextUserId)
    /\ UNCHANGED << habitat, now, pending >>

\* A present string field (!username, !password)
Given(x) == x # Undefined

UserByName(username) == { u \in DOMAIN users : users[u].username = username }

\* Mutant of LoginOutcome: the lookup works and an unknown username gets an
\* answer of its own.
LoginOutcomeEnumerable(username, password) ==
    IF ~(Given(username) /\ Given(password))
    THEN [status |-> 400, msg |-> "Username and password are required", user |-> NoSuchId]
    ELSE IF UserByName(username) = {}
    THEN [status |-> 404, msg |-> "User not found", user |-> NoSuchId]
    ELSE LET u == CHOOSE x \in UserByName(username) : TRUE IN
         IF ~Compare(password, users[u].password)
         THEN [status |-> 400, msg |-> "Invalid credentials", user |-> NoSuchId]
         ELSE [status |-> 200, msg |-> "", user |-> u]

\* exports.login, up to its answer: the status, the message and, on success,
\* the user the token is signed for.
LoginOutcome(username, password) ==
    IF ~(Given(username) /\ Given(password))
    THEN [status |-> 400, msg |-> "Username and password are required", user |-> NoSuchId]
    ELSE IF ~IsModel(AuthControllerUser)
    THEN \* User.findOne is not a function: the TypeError is caught
         [status |-> 500, msg |-> "Server error", user |-> NoSuchId]
    ELSE IF UserByName(username) = {}
    THEN [status |-> 400, msg |-> "Invalid credentials", user |-> NoSuchId]
    ELSE LET u == CHOOSE x \in UserByName(username) : TRUE IN
         IF ~Compare(password, users[u].password)
         THEN [status |-> 400, msg |-> "Invalid credentials", user |-> NoSuchId]
         ELSE [status |-> 200, msg |-> "", user |-> u]

\* exports.login
Login(username, password) ==
    LET outcome == LoginOutcome(username, password) IN
    /\ last' = [op |-> "Login", via |-> "controller", status |-> outcome.status,
                id |-> outcome.user, msg |-> outcome.msg, body |-> {}]
    /\ IF outcome.status = 200
       THEN tokens' = tokens \cup {Sign(outcome.user, username, JwtSecret)}
       ELSE UNCHANGED tokens
    /\ UNCHANGED << habitat, users, nextUserId, now, pending >>

\* Mutant of ChangePassword: the old password is not compared with the stored
\* hash.
ChangePasswordNoReverify(hdr, oldPassword, newPassword) ==
    /\ Authorize(hdr) = NextHandler
    /\ IF ~Given(newPassword)
       THEN /\ last' = Response("ChangePassword", "route", 400, NoSuchId)
            /\ UNCHANGED users
       ELSE \E salt \in Salts :
            /\ users' = [users EXCEPT ![hdr.id].password = Hash(newPassword, salt)]
            /\ last' = Response("ChangePassword", "route", 200, hdr.id)
    /\ UNCHANGED << habitat, nextUserId, tokens, now, pending >>

\* POST /api/change-password, behind authMiddleware
ChangePassword(hdr, oldPassword, newPassword) ==
    /\ Authorize(hdr) = NextHandler
    /\ IF ~Given(oldPassword)
       THEN \* bcrypt.compare(undefined, hash) throws
            /\ last' = Response("ChangePassword", "route", 400, NoSuchId)
            /\ UNCHANGED users
       ELSE IF ~Compare(oldPassword, users[hdr.id].password)
       THEN /\ last' = Response("ChangePassword", "route", 400, NoSuchId)
            /\ UNCHANGED users
       ELSE IF ~Given(newPassword)
       THEN \* bcrypt.hash(undefined, 10) throws
            /\ last' = Response("ChangePassword", "route", 400, NoSuchId)
            /\ UNCHANGED users
       ELSE \E salt \in Salts :
            /\ users' = [users EXCEPT ![hdr.id].password = Hash(newPassword, salt)]
            /\ last' = Response("ChangePassword", "route", 200, hdr.id)
    /\ UNCHANGED << habitat, nextUserId, tokens, now, pending >>

\* Mutant of ResetPassword: the password field receives the request's
\* newPassword as it came, a string with no salt and no digest in it.
ResetPasswordPlain(username, newPassword) ==
    /\ IF UserByName(username) = {}
       THEN /\ last' = Response("ResetPassword", "route", 404, NoSuchId)
            /\ UNCHANGED users
       ELSE IF ~Given(newPassword)
       THEN /\ last' = Response("ResetPassword", "route", 400, NoSuchId)
            /\ UNCHANGED users
       ELSE LET u == CHOOSE x \in UserByName(username) : TRUE IN
            /\ users' = [users EXCEPT ![u].password =
                                          [salt |-> "", digest |-> << newPassword >>]]
            /\ last' = Response("ResetPassword", "route", 200, u)
    /\ UNCHANGED << habitat, nextUserId, tokens, now, pending >>

\* Mutant of ResetPassword: a reset also takes the user's earlier tokens out of
\* circulation.
ResetPasswordRevoking(username, newPassword) ==
    /\ IF UserByName(username) = {}
       THEN /\ last' = Response("ResetPassword", "route", 404, NoSuchId)
            /\ UNCHANGED << users, tokens >>
       ELSE IF ~Given(newPassword)
       THEN /\ last' = Response("ResetPassword", "route", 400, NoSuchId)
            /\ UNCHANGED << users, tokens >>
       ELSE \E salt \in Salts :
            LET u == CHOOSE x \in UserByName(username) : TRUE IN
            /\ users' = [users EXCEPT ![u].password = Hash(newPassword, salt)]
            /\ tokens' = { t \in tokens : t.id # u }
            /\ last' = Response("ResetPassword", "route", 200, u)
    /\ UNCHANGED << habitat, nextUserId, now, pending >>

\* POST /api/reset-password
ResetPassword(username, newPassword) ==
    /\ IF UserByName(username) = {}
       THEN /\ last' = Response("ResetPassword", "route", 404, NoSuchId)
            /\ UNCHANGED users
       ELSE IF ~Given(newPassword)
       THEN /\ last' = Response("ResetPassword", "route", 400, NoSuchId)
            /\ UNCHANGED users
       ELSE \E salt \in Salts :
            LET u == CHOOSE x \in UserByName(username) : TRUE IN
            /\ users' = [users EXCEPT ![u].password = Hash(newPassword, salt)]
            /\ last' = Response("ResetPassword", "route", 200, u)
    /\ UNCHANGED << habitat, nextUserId, tokens, now, pending >>

\* DELETE /api/users/:id
DeleteUser(id) ==
    /\ IF id \notin DOMAIN users
       THEN /\ last' = Response("DeleteUser", "route", 404, NoSuchId)
            /\ UNCHANGED users
       ELSE /\ users' = [u \in DOMAIN users \ {id} |-> users[u]]
            /\ last' = Response("DeleteUser", "route", 200, id)
    /\ UNCHANGED << habitat, nextUserId, tokens, now, pending >>

\* Time passes.
Tick ==
    /\ now < MaxClock
    /\ now' = now + 1
    /\ UNCHANGED << habitat, identity, last, pending >>

\* ------------------------------------------------------------ store writes
\* new Animal({name, species, zoo}).save(): the schema requires name and species.
AnimalValid(name, species) == name # Undefined /\ species # Undefined
\* new Zoo({name, location, animals}).save(): the schema requires name and location.
ZooValid(name, location) == name # Undefined /\ location # Undefined

InsertAnimal(name, species, zoo) ==
    /\ animals' = [a \in DOMAIN animals \cup {nextAnimalId} |->
                      IF a = nextAnimalId
                      THEN [name |-> name, species |-> species, zoo |-> zoo]
                      ELSE animals[a]]
    /\ nextAnimalId' = nextAnimalId + 1

InsertZoo(name, location, list) ==
    /\ zoos' = [z \in DOMAIN zoos \cup {nextZooId} |->
                   IF z = nextZooId
                   THEN [name |-> name, location |-> location, animals |-> list]
                   ELSE zoos[z]]
    /\ nextZooId' = nextZooId + 1

\* Animal.findByIdAndDelete / Zoo.findByIdAndDelete of an existing document.
RemoveAnimal(id) == animals' = [a \in DOMAIN animals \ {id} |-> animals[a]]
RemoveZoo(id) == zoos' = [z \in DOMAIN zoos \ {id} |-> zoos[z]]

\* A field of an update body: absent fields keep the stored value.
Updated(old, new) == IF new = Undefined THEN old ELSE new
UpdatedList(old, new) == IF new = NoList THEN old ELSE new
UpdatedRef(old, new) == IF new = Absent THEN old ELSE new

\* ------------------------------------------------ habitat: mounted routers
\* POST /api/animals/no-zoo  (app.js mounts authMiddleware in front of the router)
CreateAnimalNoZooRoute(name, species) ==
    /\ IF ~AnimalValid(name, species)
       THEN /\ last' = Response("CreateAnimalNoZoo", "route", 400, NoSuchId)
            /\ UNCHANGED << animals, nextAnimalId >>
       ELSE /\ nextAnimalId <= MaxAnimals
            /\ InsertAnimal(name, species, Null)
            /\ last' = Response("CreateAnimalNoZoo", "route", 201, nextAnimalId)
    /\ UNCHANGED << zoos, nextZooId, identity, now, pending >>

\* POST /api/animals
CreateAnimalRoute(name, species, zoo) ==
    /\ IF ~ZooExists(zoo)
       THEN /\ last' = Failure("CreateAnimal", "route", 404, "Zoologico no encontrado")
            /\ UNCHANGED << animals, nextAnimalId >>
       ELSE IF ~AnimalValid(name, species)
       THEN /\ last' = Failure("CreateAnimal", "route", 400, "Error al crear el animal")
            /\ UNCHANGED << animals, nextAnimalId >>
       ELSE /\ nextAnimalId <= MaxAnimals
            /\ InsertAnimal(name, species, zoo)
            /\ last' = Response("CreateAnimal", "route", 201, nextAnimalId)
    /\ UNCHANGED << zoos, nextZooId, identity, now, pending >>

\* PUT /api/animals/:id
UpdateAnimalRoute(id, name, species, zoo) ==
    /\ IF ~ZooExists(zoo)
       THEN /\ last' = Failure("UpdateAnimal", "route", 404, "zoologico no encontrado")
            /\ UNCHANGED animals
       ELSE IF ~AnimalExists(id)
       THEN /\ last' = Failure("UpdateAnimal", "route", 404, "Animal no encontrado")
            /\ UNCHANGED animals
       ELSE /\ animals' = [animals EXCEPT ![id] =
                              [name |-> name, species |-> species, zoo |-> zoo]]
            /\ last' = Response("UpdateAnimal", "route", 200, id)
    /\ UNCHANGED << zoos, nextAnimalId, nextZooId, identity, now, pending >>

\* DELETE /api/animals/:id
DeleteAnimalRoute(id) ==
    /\ IF ~AnimalExists(id)
       THEN /\ last' = Failure("DeleteAnimal", "route", 404, "Animal no encontrado")
            /\ UNCHANGED animals
       ELSE IF ~ZooExists(animals[id].zoo)
       THEN /\ last' = Failure("DeleteAnimal", "route", 404, "Zoologico no encontrado")
            /\ UNCHANGED animals
       ELSE /\ RemoveAnimal(id)
            /\ last' = Response("DeleteAnimal", "route", 200, id)
    /\ UNCHANGED << zoos, nextAnimalId, nextZooId, identity, now, pending >>

\* Animal.find({ _id: { $in: list } }): the existing animals among the candidates.
FoundAnimals(list) == { a \in Range(list) : AnimalExists(a) }

\* Mutant of CreateZooRoute: the count of found animals is not compared with the
\* count requested, so the zoo is created from whichever candidates exist.
CreateZooRouteUnchecked(name, location, list) ==
    /\ IF list = NoList
       THEN /\ last' = Failure("CreateZoo", "route", 400, "Error al crear el zoologico")
            /\ UNCHANGED << zoos, nextZooId >>
       ELSE IF ~ZooValid(name, location)
       THEN /\ last' = Failure("CreateZoo", "route", 400, "Error al crear el zoologico")
            /\ UNCHANGED << zoos, nextZooId >>
       ELSE /\ nextZooId <= MaxZoos
            /\ InsertZoo(name, location, SortedSeq(FoundAnimals(list)))
            /\ last' = Response("CreateZoo", "route", 201, nextZooId)
    /\ UNCHANGED << animals, nextAnimalId, identity, now, pending >>

\* POST /api/zoos
CreateZooRoute(name, location, list) ==
    /\ IF list = NoList
       THEN \* animals.length of undefined throws inside the try block
            /\ last' = Failure("CreateZoo", "route", 400, "Error al crear el zoologico")
            /\ UNCHANGED << zoos, nextZooId >>
       ELSE IF Cardinality(FoundAnimals(list)) # Len(list)
       THEN /\ last' = Failure("CreateZoo", "route", 400, "Uno o mas animales no existen")
            /\ UNCHANGED << zoos, nextZooId >>
       ELSE IF ~ZooValid(name, location)
       THEN /\ last' = Failure("CreateZoo", "route", 400, "Error al crear el zoologico")
            /\ UNCHANGED << zoos, nextZooId >>
       ELSE /\ nextZooId <= MaxZoos
            /\ InsertZoo(name, location, SortedSeq(FoundAnimals(list)))
            /\ last' = Response("CreateZoo", "route", 201, nextZooId)
    /\ UNCHANGED << animals, nextAnimalId, identity, now, pending >>

\* Zoo.findByIdAndUpdate(id, req.body, { new: true }) of an existing zoo
ApplyZooUpdate(id, name, location, list) ==
    zoos' = [zoos EXCEPT ![id] =
                [name |-> Updated(@.name, name),
                 location |-> Updated(@.location, location),
                 animals |-> UpdatedList(@.animals, list)]]

\* PUT /api/zoos/:id
UpdateZooRoute(id, name, location, list) ==
    /\ IF ~ZooExists(id)
       THEN /\ last' = Response("UpdateZoo", "route", 404, NoSuchId)
            /\ UNCHANGED zoos
       ELSE /\ ApplyZooUpdate(id, name, location, list)
            /\ last' = Response("UpdateZoo", "route", 200, id)
    /\ UNCHANGED << animals, nextAnimalId, nextZooId, identity, now, pending >>

\* Mutant of DeleteZooRoute: the deletion cascades, clearing the zoo reference
\* of the animals that pointed at the deleted zoo.
DeleteZooRouteCascading(id) ==
    /\ IF ~ZooExists(id)
       THEN /\ last' = Response("DeleteZoo", "route", 404, NoSuchId)
            /\ UNCHANGED << zoos, animals >>
       ELSE /\ RemoveZoo(id)
            /\ animals' = [a \in DOMAIN animals |->
                              IF animals[a].zoo = id
                              THEN [animals[a] EXCEPT !.zoo = Null]
                              ELSE animals[a]]
            /\ last' = Response("DeleteZoo", "route", 200, id)
    /\ UNCHANGED << nextAnimalId, nextZooId, identity, now, pending >>

\* DELETE /api/zoos/:id
DeleteZooRoute(id) ==
    /\ IF ~ZooExists(id)
       THEN /\ last' = Response("DeleteZoo", "route", 404, NoSuchId)
            /\ UNCHANGED zoos
       ELSE /\ RemoveZoo(id)
            /\ last' = Response("DeleteZoo", "route", 200, id)
    /\ UNCHANGED << animals, nextAnimalId, nextZooId, identity, now, pending >>

\* .populate('animals'): the identifiers of the array that resolve to a document
\* (an identifier with no document is dropped from a populated array).
Populated(z) == { a \in Range(zoos[z].animals) : AnimalExists(a) }

\* GET /api/zoos/:id
GetZooRoute(id) ==
    /\ IF ~ZooExists(id)
       THEN last' = Response("GetZoo", "route", 404, NoSuchId)
       ELSE last' = Listing("GetZoo", "route", 200, id, Populated(id))
    /\ UNCHANGED << habitat, identity, now, pending >>

\* ----------------------------------------- habitat: controller functions
\* exports.createAnimal
CreateAnimalCtl(name, species, zoo) ==
    /\ IF ~AnimalValid(name, species)
       THEN /\ last' = Response("CreateAnimal", "controller", 400, NoSuchId)
            /\ UNCHANGED << animals, nextAnimalId, zoos >>
       ELSE /\ nextAnimalId <= MaxAnimals
            /\ InsertAnimal(name, species, zoo)
            /\ IF ~ZooExists(zoo)
               THEN /\ last' = Response("CreateAnimal", "controller", 404, NoSuchId)
                    /\ UNCHANGED zoos
               ELSE /\ zoos' = [zoos EXCEPT ![zoo].animals = Append(@, nextAnimalId)]
                    /\ last' = Response("CreateAnimal", "controller", 201, nextAnimalId)
    /\ UNCHANGED << nextZooId, identity, now, pending >>

\* exports.updateAnimal: Animal.findByIdAndUpdate(id, req.body, { new: true })
UpdateAnimalCtl(id, name, species, zoo) ==
    /\ IF ~AnimalExists(id)
       THEN /\ last' = Response("UpdateAnimal", "controller", 404, NoSuchId)
            /\ UNCHANGED animals
       ELSE /\ animals' = [animals EXCEPT ![id] =
                              [name |-> Updated(@.name, name),
                               species |-> Updated(@.species, species),
                               zoo |-> UpdatedRef(@.zoo, zoo)]]
            /\ last' = Response("UpdateAnimal", "controller", 200, id)
    /\ UNCHANGED << zoos, nextAnimalId, nextZooId, identity, now, pending >>

\* exports.deleteAnimal
DeleteAnimalCtl(id) ==
    /\ IF ~AnimalExists(id)
       THEN /\ last' = Response("DeleteAnimal", "controller", 404, NoSuchId)
            /\ UNCHANGED << animals, zoos >>
       ELSE /\ IF ZooExists(animals[id].zoo)
               THEN zoos' = [zoos EXCEPT ![animals[id].zoo].animals = Without(@, id)]
               ELSE UNCHANGED zoos
            /\ RemoveAnimal(id)
            /\ last' = Response("DeleteAnimal", "controller", 200, id)
    /\ UNCHANGED << nextAnimalId, nextZooId, identity, now, pending >>

\* exports.createZoo: of the body it reads name and location (geoExtension and
\* animalCapacity are not schema paths) and never animals: the array starts empty.
CreateZooCtl(name, location) ==
    /\ IF ~ZooValid(name, location)
       THEN /\ last' = Response("CreateZoo", "controller", 400, NoSuchId)
            /\ UNCHANGED << zoos, nextZooId >>
       ELSE /\ nextZooId <= MaxZoos
            /\ InsertZoo(name, location, << >>)
            /\ last' = Response("CreateZoo", "controller", 201, nextZooId)
    /\ UNCHANGED << animals, nextAnimalId, identity, now, pending >>

\* exports.updateZoo
UpdateZooCtl(id, name, location, list) ==
    /\ IF ~ZooExists(id)
       THEN /\ last' = Response("UpdateZoo", "controller", 404, NoSuchId)
            /\ UNCHANGED zoos
       ELSE /\ ApplyZooUpdate(id, name, location, list)
            /\ last' = Response("UpdateZoo", "controller", 200, id)
    /\ UNCHANGED << animals, nextAnimalId, nextZooId, identity, now, pending >>

\* exports.deleteZoo
DeleteZooCtl(id) ==
    /\ IF ~ZooExists(id)
       THEN /\ last' = Response("DeleteZoo", "controller", 404, NoSuchId)
            /\ UNCHANGED zoos
       ELSE /\ RemoveZoo(id)
            /\ last' = Response("DeleteZoo", "controller", 200, id)
    /\ UNCHANGED << animals, nextAnimalId, nextZooId, identity, now, pending >>

\* ----------------------------------- habitat: handlers run step by step
\* A handler suspends at each await; between two store calls of one request
\* the store calls of the other requests take place.  One action is one store
\* call of one request, with the synchronous code that follows it up to the
\* next await or the response.  The atomic actions above are these steps run
\* without interruption.
Requests == 1..MaxRequests

\* A free slot, and the locals of a request: the handler (op, via), the await it
\* is suspended at, req.body fields still to be used, the animal _id, and the
\* zoo document as findById returned it (its animals array and its __v).
Idle == [op |-> "idle", via |-> "none", pc |-> "idle", name |-> Undefined,
         species |-> Undefined, zoo |-> Null, animal |-> NoSuchId,
         list |-> << >>, v |-> 0]

Suspend(r, locals) == inflight' = [inflight EXCEPT ![r] = locals]
Finish(r) == inflight' = [inflight EXCEPT ![r] = Idle]
\* The slot a new request takes: the first free one (slots are interchangeable).
Free(r) ==
    /\ inflight[r].op = "idle"
    /\ \A q \in Requests : q < r => inflight[q].op # "idle"
At(r, op, via, pc) ==
    /\ inflight[r].op = op
    /\ inflight[r].via = via
    /\ inflight[r].pc = pc

\* The version key of a zoo document: 0 when inserted.
VersionOf(z) == IF z \in DOMAIN versions THEN versions[z] ELSE 0
\* $inc: { __v: 1 }
Bump(z) ==
    versions' = [x \in DOMAIN versions \cup {z} |->
                    IF x = z THEN VersionOf(z) + 1 ELSE versions[x]]

\* exports.createAnimal: await animal.save()
CreateAnimalCtlSave(r, name, species, zoo) ==
    /\ Free(r)
    /\ IF ~AnimalValid(name, species)
       THEN /\ last' = Response("CreateAnimal", "controller", 400, NoSuchId)
            /\ UNCHANGED << animals, nextAnimalId, inflight >>
       ELSE /\ nextAnimalId <= MaxAnimals
            /\ InsertAnimal(name, species, zoo)
            /\ Suspend(r, [Idle EXCEPT !.op = "CreateAnimal", !.via = "controller",
                                       !.pc = "findZoo", !.zoo = zoo,
                                       !.animal = nextAnimalId])
            /\ UNCHANGED last
    /\ UNCHANGED << zoos, nextZooId, versions, identity, now >>

\* exports.createAnimal: await Zoo.findById(req.body.zoo)
CreateAnimalCtlFindZoo(r) ==
    /\ At(r, "CreateAnimal", "controller", "findZoo")
    /\ IF ~ZooExists(inflight[r].zoo)
       THEN /\ last' = Response("CreateAnimal", "controller", 404, NoSuchId)
            /\ Finish(r)
       ELSE /\ Suspend(r, [inflight[r] EXCEPT !.pc = "saveZoo",
                                              !.list = zoos[inflight[r].zoo].animals,
                                              !.v = VersionOf(inflight[r].zoo)])
            /\ UNCHANGED last
    /\ UNCHANGED << habitat, versions, identity, now >>

\* Mutant of CreateAnimalCtlPush: the save is sent again (the request stays at
\* the same await after a successful save).
CreateAnimalCtlPushRetried(r) ==
    /\ At(r, "CreateAnimal", "controller", "saveZoo")
    /\ ZooExists(inflight[r].zoo)
    /\ zoos' = [zoos EXCEPT ![inflight[r].zoo].animals = Append(@, inflight[r].animal)]
    /\ Bump(inflight[r].zoo)
    /\ last' = Response("CreateAnimal", "controller", 201, inflight[r].animal)
    /\ UNCHANGED << animals, nextAnimalId, nextZooId, identity, now, inflight >>

\* exports.createAnimal: zoo.animals.push(newAnimal._id); await zoo.save().
\* Mongoose sends the push of a loaded array as { $push, $inc: { __v: 1 } } with
\* no condition on __v: the store appends to the array it holds at that moment.
\* A document deleted in the meantime makes save() throw (DocumentNotFoundError).
CreateAnimalCtlPush(r) ==
    /\ At(r, "CreateAnimal", "controller", "saveZoo")
    /\ IF ~ZooExists(inflight[r].zoo)
       THEN /\ last' = Response("CreateAnimal", "controller", 400, NoSuchId)
            /\ UNCHANGED << zoos, versions >>
       ELSE /\ zoos' = [zoos EXCEPT ![inflight[r].zoo].animals =
                                        Append(@, inflight[r].animal)]
            /\ Bump(inflight[r].zoo)
            /\ last' = Response("CreateAnimal", "controller", 201, inflight[r].animal)
    /\ Finish(r)
    /\ UNCHANGED << animals, nextAnimalId, nextZooId, identity, now >>

\* POST /api/animals: await Zoo.findById(zoo), behind authMiddleware
CreateAnimalRouteFindZoo(r, name, species, zoo) ==
    /\ Free(r)
    /\ Passing # {}
    /\ IF ~ZooExists(zoo)
       THEN /\ last' = Failure("CreateAnimal", "route", 404, "Zoologico no encontrado")
            /\ UNCHANGED inflight
       ELSE /\ Suspend(r, [Idle EXCEPT !.op = "CreateAnimal", !.via = "route",
                                       !.pc = "save", !.name = name,
                                       !.species = species, !.zoo = zoo])
            /\ UNCHANGED last
    /\ UNCHANGED << habitat, versions, identity, now >>

\* POST /api/animals: await newAnimal.save()
CreateAnimalRouteSave(r) ==
    /\ At(r, "CreateAnimal", "route", "save")
    /\ IF ~AnimalValid(inflight[r].name, inflight[r].species)
       THEN /\ last' = Failure("CreateAnimal", "route", 400, "Error al crear el animal")
            /\ UNCHANGED << animals, nextAnimalId >>
       ELSE /\ nextAnimalId <= MaxAnimals
            /\ InsertAnimal(inflight[r].name, inflight[r].species, inflight[r].zoo)
            /\ last' = Response("CreateAnimal", "route", 201, nextAnimalId)
    /\ Finish(r)
    /\ UNCHANGED << zoos, nextZooId, versions, identity, now >>

\* exports.deleteAnimal: await Animal.findById(req.params.id)
DeleteAnimalCtlFind(r, id) ==
    /\ Free(r)
    /\ IF ~AnimalExists(id)
       THEN /\ last' = Response("DeleteAnimal", "controller", 404, NoSuchId)
            /\ UNCHANGED inflight
       ELSE /\ Suspend(r, [Idle EXCEPT !.op = "DeleteAnimal", !.via = "controller",
                                       !.pc = "findZoo", !.animal = id,
                                       !.zoo = animals[id].zoo])
            /\ UNCHANGED last
    /\ UNCHANGED << habitat, versions, identity, now >>

\* exports.deleteAnimal: await Zoo.findById(animal.zoo)
DeleteAnimalCtlFindZoo(r) ==
    /\ At(r, "DeleteAnimal", "controller", "findZoo")
    /\ IF ZooExists(inflight[r].zoo)
       THEN Suspend(r, [inflight[r] EXCEPT !.pc = "saveZoo",
                                           !.list = zoos[inflight[r].zoo].animals,
                                           !.v = VersionOf(inflight[r].zoo)])
       ELSE Suspend(r, [inflight[r] EXCEPT !.pc = "delete"])
    /\ UNCHANGED << habitat, versions, identity, now, last >>

\* save() of a document whose array was assigned: the update carries the __v the
\* document was loaded with; it fails (VersionError) when the stored __v has
\* moved, and (DocumentNotFoundError) when the document is gone.
SaveAccepted(z, v) == ZooExists(z) /\ VersionOf(z) = v

\* exports.deleteAnimal: zoo.animals = zoo.animals.filter(...); await zoo.save().
\* Assigning an array equal to the loaded one modifies nothing and save() sends
\* no update; otherwise the whole filtered array is written with
\* { $set, $inc: { __v: 1 } } under the condition on __v.
DeleteAnimalCtlFilter(r) ==
    /\ At(r, "DeleteAnimal", "controller", "saveZoo")
    /\ IF Without(inflight[r].list, inflight[r].animal) = inflight[r].list
       THEN /\ Suspend(r, [inflight[r] EXCEPT !.pc = "delete"])
            /\ UNCHANGED << zoos, versions, last >>
       ELSE IF ~SaveAccepted(inflight[r].zoo, inflight[r].v)
       THEN /\ last' = Response("DeleteAnimal", "controller", 500, NoSuchId)
            /\ Finish(r)
            /\ UNCHANGED << zoos, versions >>
       ELSE /\ zoos' = [zoos EXCEPT ![inflight[r].zoo].animals =
                                        Without(inflight[r].list, inflight[r].animal)]
            /\ Bump(inflight[r].zoo)
            /\ Suspend(r, [inflight[r] EXCEPT !.pc = "delete"])
            /\ UNCHANGED last
    /\ UNCHANGED << animals, nextAnimalId, nextZooId, identity, now >>

\* exports.deleteAnimal: await Animal.findByIdAndDelete(req.params.id)
DeleteAnimalCtlRemove(r) ==
    /\ At(r, "DeleteAnimal", "controller", "delete")
    /\ RemoveAnimal(inflight[r].animal)
    /\ last' = Response("DeleteAnimal", "controller", 200, inflight[r].animal)
    /\ Finish(r)
    /\ UNCHANGED << zoos, nextAnimalId, nextZooId, versions, identity, now >>

\* DELETE /api/animals/:id: await Animal.findById(req.params.id), behind
\* authMiddleware
DeleteAnimalRouteFind(r, id) ==
    /\ Free(r)
    /\ Passing # {}
    /\ IF ~AnimalExists(id)
       THEN /\ last' = Failure("DeleteAnimal", "route", 404, "Animal no encontrado")
            /\ UNCHANGED inflight
       ELSE /\ Suspend(r, [Idle EXCEPT !.op = "DeleteAnimal", !.via = "route",
                                       !.pc = "findZoo", !.animal = id,
                                       !.zoo = animals[id].zoo])
            /\ UNCHANGED last
    /\ UNCHANGED << habitat, versions, identity, now >>

\* DELETE /api/animals/:id: await Zoo.findById(animal.zoo)
DeleteAnimalRouteFindZoo(r) ==
    /\ At(r, "DeleteAnimal", "route", "findZoo")
    /\ IF ~ZooExists(inflight[r].zoo)
       THEN /\ last' = Failure("DeleteAnimal", "route", 404, "Zoologico no encontrado")
            /\ Finish(r)
       ELSE /\ Suspend(r, [inflight[r] EXCEPT !.pc = "delete"])
            /\ UNCHANGED last
    /\ UNCHANGED << habitat, versions, identity, now >>

\* DELETE /api/animals/:id: await Animal.findByIdAndDelete(req.params.id)
DeleteAnimalRouteRemove(r) ==
    /\ At(r, "DeleteAnimal", "route", "delete")
    /\ RemoveAnimal(inflight[r].animal)
    /\ last' = Response("DeleteAnimal", "route", 200, inflight[r].animal)
    /\ Finish(r)
    /\ UNCHANGED << zoos, nextAnimalId, nextZooId, versions, identity, now >>

\* ------------------------------------------------------------ request inputs
\* The name and species of a creation body: both given, or one of them missing.
AnimalFields == { << n, s >> \in (Names \cup {Undefined}) \X (SpeciesSet \cup {Undefined}) :
                    Undefined \in {n, s} => {n, s} # {Undefined} }
ZooFields == { << n, l >> \in (ZooNames \cup {Undefined}) \X (Locations \cup {Undefined}) :
                    Undefined \in {n, l} => {n, l} # {Undefined} }
\* The name and species of an update body: both given or both left out.
AnimalChanges == (Names \X SpeciesSet) \cup { << Undefined, Undefined >> }
ZooChanges == (ZooNames \X Locations) \cup { << Undefined, Undefined >> }
\* A zoo reference of a request body: an identifier, or none (undefined).
ZooRefInputs == KnownZooIds \cup {Null}
\* An "animals" array of a creation body (or none): the candidates.
Candidates == SeqsUpTo(KnownAnimalIds, MaxList + 1) \cup {NoList}
\* An "animals" array of an update body (or none).
ListInputs == SeqsUpTo(1..(nextAnimalId - 1), MaxList) \cup {NoList}

Init ==
    /\ animals = << >>
    /\ zoos = << >>
    /\ nextAnimalId = 1
    /\ nextZooId = 1
    /\ users = << >>
    /\ nextUserId = 1
    /\ tokens = {}
    /\ now = 0
    /\ last = Response("none", "none", 0, NoSuchId)
    /\ inflight = [r \in Requests |-> Idle]
    /\ versions = << >>

ControllerRequests ==
    \/ \E f \in AnimalFields, z \in ZooRefInputs : CreateAnimalCtl(f[1], f[2], z)
    \/ \E a \in KnownAnimalIds, f \in AnimalChanges, z \in ZooRefInputs \cup {Absent} :
          UpdateAnimalCtl(a, f[1], f[2], z)
    \/ \E a \in KnownAnimalIds : DeleteAnimalCtl(a)
    \/ \E f \in ZooFields : CreateZooCtl(f[1], f[2])
    \/ \E z \in KnownZooIds, f \in ZooChanges, c \in ListInputs :
          UpdateZooCtl(z, f[1], f[2], c)
    \/ \E z \in KnownZooIds : DeleteZooCtl(z)

\* The scenario's registration: the one identity request of the habitat runs.
RegisterScenario == Register("juan123", "pw1")

\* app.use('/api/zoos', authMiddleware, zooRoutes) and
\* app.use('/api/animals', authMiddleware, animalRoutes): a request reaches a
\* router only through the middleware.
Mounted ==
    \/ \E hdr \in Headers : Rejected(hdr)
    \/ \E hdr \in Passing, f \in AnimalFields : CreateAnimalNoZooRoute(f[1], f[2])
    \/ \E hdr \in Passing, f \in AnimalFields, z \in ZooRefInputs :
          CreateAnimalRoute(f[1], f[2], z)
    \/ \E hdr \in Passing, a \in KnownAnimalIds, f \in Names \X SpeciesSet, z \in ZooRefInputs :
          UpdateAnimalRoute(a, f[1], f[2], z)
    \/ \E hdr \in Passing, a \in KnownAnimalIds : DeleteAnimalRoute(a)
    \/ \E hdr \in Passing, f \in ZooFields, c \in Candidates : CreateZooRoute(f[1], f[2], c)
    \/ \E hdr \in Passing, z \in KnownZooIds, f \in ZooChanges, c \in ListInputs :
          UpdateZooRoute(z, f[1], f[2], c)
    \/ \E hdr \in Passing, z \in KnownZooIds : DeleteZooRoute(z)
    \/ \E hdr \in Passing, z \in KnownZooIds : GetZooRoute(z)

\* The application app.js builds: the registration and the mounted routers.
NextRoutes == RegisterScenario \/ Mounted

SpecRoutes == Init /\ [][NextRoutes]_vars

\* The mounted routers and the controller functions together.
NextHabitat == NextRoutes \/ ControllerRequests

SpecHabitat == Init /\ [][NextHabitat]_vars

\* The scenario's zoo: the one zoo the overlapping requests name.
ZooScenario ==
    /\ nextZooId = 1
    /\ CreateZooCtl("City Zoo", "Springfield")

\* Requests overlapping in time: the registration and the creation of zoos
\* (one store call each), and the animal creations and deletions of both
\* handler families, step by step.
NextConcurrent ==
    \/ RegisterScenario
    \/ ZooScenario
    \/ \E r \in Requests, f \in AnimalFields, z \in KnownZooIds :
          CreateAnimalCtlSave(r, f[1], f[2], z)
    \/ \E r \in Requests : CreateAnimalCtlFindZoo(r)
    \/ \E r \in Requests : CreateAnimalCtlPush(r)
    \/ \E r \in Requests, f \in AnimalFields, z \in KnownZooIds :
          CreateAnimalRouteFindZoo(r, f[1], f[2], z)
    \/ \E r \in Requests : CreateAnimalRouteSave(r)
    \/ \E r \in Requests, a \in KnownAnimalIds : DeleteAnimalCtlFind(r, a)
    \/ \E r \in Requests : DeleteAnimalCtlFindZoo(r)
    \/ \E r \in Requests : DeleteAnimalCtlFilter(r)
    \/ \E r \in Requests : DeleteAnimalCtlRemove(r)
    \/ \E r \in Requests, a \in KnownAnimalIds : DeleteAnimalRouteFind(r, a)
    \/ \E r \in Requests : DeleteAnimalRouteFindZoo(r)
    \/ \E r \in Requests : DeleteAnimalRouteRemove(r)

SpecConcurrent == Init /\ [][NextConcurrent]_vars

KnownUserIds == (1..(nextUserId - 1)) \cup {NoSuchId}
UsernameInputs == Usernames \cup {Undefined}
PasswordInputs == Passwords \cup {Undefined}

\* app.use('/api', authRoutes): the users router; change-password names
\* authMiddleware itself.
IdentityRequests ==
    \/ \E u \in UsernameInputs, p \in PasswordInputs : Register(u, p)
    \/ \E u \in UsernameInputs, p \in PasswordInputs : Login(u, p)
    \/ \E hdr \in Headers : Rejected(hdr)
    \/ \E hdr \in Passing, o \in PasswordInputs, n \in PasswordInputs :
          ChangePassword(hdr, o, n)
    \/ \E u \in UsernameInputs, p \in PasswordInputs : ResetPassword(u, p)
    \/ \E id \in KnownUserIds : DeleteUser(id)

NextIdentity == IdentityRequests \/ Tick

SpecIdentity == Init /\ [][NextIdentity]_vars

Next == NextHabitat \/ NextIdentity \/ NextConcurrent

Spec == Init /\ [][Next]_vars

\* ==================================================================== claims

\* C1: every identifier held in a zoo's animal collection refers to an existing
\* animal whose own zoo reference is that zoo.
C1_ReverseLinksResolve ==
    \A z \in DOMAIN zoos : \A a \in Range(zoos[z].animals) :
        AnimalExists(a) /\ animals[a].zoo = z

\* C2: every animal whose zoo reference is not null is contained in the animal
\* collection of the zoo it refers to.
C2_ForwardLinksMirrored ==
    \A a \in DOMAIN animals :
        animals[a].zoo # Null =>
            ZooExists(animals[a].zoo) /\ a \in Range(zoos[animals[a].zoo].animals)

\* C3: a successful CreateAnimal naming an existing zoo leaves the new animal's
\* identifier exactly once in that zoo's collection and the animal referring to
\* that zoo.
C3_CreateAnimalLinksBothEnds ==
    [][last'.op = "CreateAnimal" =>
       \A f \in AnimalFields, z \in KnownZooIds :
          ( /\ CreateAnimalRoute(f[1], f[2], z) \/ CreateAnimalCtl(f[1], f[2], z)
            /\ ZooExists(z)
            /\ last'.status = 201 )
          => /\ last'.id \in DOMAIN animals'
             /\ animals'[last'.id].zoo = z
             /\ Count(zoos'[z].animals, last'.id) = 1]_vars

\* An animal whose zoo exists and lists it.
Attached(a) ==
    /\ AnimalExists(a)
    /\ ZooExists(animals[a].zoo)
    /\ a \in Range(zoos[animals[a].zoo].animals)

\* C4: DeleteAnimal on an animal attached to an existing zoo Z removes the
\* animal's identifier from Z's collection and removes the animal record.
C4_DeleteAnimalUnlinks ==
    [][last'.op = "DeleteAnimal" =>
       \A a \in KnownAnimalIds :
          ( /\ DeleteAnimalRoute(a) \/ DeleteAnimalCtl(a)
            /\ Attached(a) )
          => /\ a \notin DOMAIN animals'
             /\ a \notin Range(zoos'[animals[a].zoo].animals)]_vars

\* C5: DeleteAnimal on an existing animal always removes the animal record, with
\* or without a zoo reference and whether or not the referenced zoo exists; it
\* answers not-found only when the animal does not exist.
C5_DeleteAnimalAlwaysRemoves ==
    [][last'.op = "DeleteAnimal" =>
       \A a \in KnownAnimalIds :
          ( DeleteAnimalRoute(a) \/ DeleteAnimalCtl(a) )
          => IF AnimalExists(a)
             THEN last'.status = 200 /\ a \notin DOMAIN animals'
             ELSE last'.status = 404]_vars

\* A candidate list naming at least one animal that does not exist.
Unresolved(c) == c # NoList /\ \E i \in 1..Len(c) : ~AnimalExists(c[i])

\* C6: CreateZoo with a candidate that does not resolve to an existing animal
\* answers with a validation failure and leaves all zoo and animal records as
\* they were.
C6_CreateZooRejectsUnresolved ==
    [][last'.op = "CreateZoo" =>
       \/ /\ last'.status = 400
          /\ zoos' = zoos
          /\ animals' = animals
       \/ ~ \E f \in ZooFields, c \in Candidates :
               Unresolved(c) /\ CreateZooRoute(f[1], f[2], c)]_vars

\* C6 witness: the route has just refused a candidate list because a candidate
\* did not resolve: no animal document exists (one was created and deleted), so
\* the refused list named an animal that does not exist, and a zoo is stored.
C6_Witness ==
    /\ last.op = "CreateZoo"
    /\ last.via = "route"
    /\ last.status = 400
    /\ last.msg = "Uno o mas animales no existen"
    /\ DOMAIN animals = {}
    /\ nextAnimalId > 1
    /\ DOMAIN zoos # {}

\* The identifiers a candidate list resolves to (none when no list is supplied).
Resolved(c) == IF c = NoList THEN {} ELSE Range(c)

\* C7: CreateZoo with a name and a location succeeds whenever every candidate
\* resolves, also when no candidate list is supplied, and persists one new zoo
\* whose collection is exactly the resolved identifiers.
C7_CreateZooPersistsResolved ==
    [][last'.op = "CreateZoo" =>
       \A f \in ZooNames \X Locations, c \in Candidates :
          ( /\ CreateZooRoute(f[1], f[2], c) \/ CreateZooCtl(f[1], f[2])
            /\ ~Unresolved(c) )
          => /\ last'.status = 201
             /\ DOMAIN zoos' = DOMAIN zoos \cup {last'.id}
             /\ last'.id \notin DOMAIN zoos
             /\ Range(zoos'[last'.id].animals) = Resolved(c)]_vars

\* C8: UpdateAnimal setting an existing animal's zoo reference to an existing
\* zoo T leaves the animal's identifier in T's collection and in no other zoo's;
\* UpdateAnimal naming a zoo that does not exist changes nothing.
C8_UpdateAnimalRelinks ==
    [][last'.op = "UpdateAnimal" =>
       \A a \in KnownAnimalIds, f \in AnimalChanges, t \in KnownZooIds :
          ( /\ UpdateAnimalRoute(a, f[1], f[2], t) \/ UpdateAnimalCtl(a, f[1], f[2], t)
            /\ AnimalExists(a) )
          => IF ZooExists(t)
             THEN \A z \in DOMAIN zoos' : (a \in Range(zoos'[z].animals)) <=> (z = t)
             ELSE animals' = animals /\ zoos' = zoos]_vars

\* C9: DeleteZoo answers not-found and changes nothing when the zoo does not
\* exist; otherwise it removes exactly that zoo and leaves every animal record
\* (zoo references included) and every other zoo as it was.
C9_DeleteZooFrame ==
    [][last'.op = "DeleteZoo" =>
       \A z \in KnownZooIds :
          ( DeleteZooRoute(z) \/ DeleteZooCtl(z) )
          => IF ~ZooExists(z)
             THEN last'.status = 404 /\ zoos' = zoos /\ animals' = animals
             ELSE /\ last'.status = 200
                  /\ animals' = animals
                  /\ DOMAIN zoos' = DOMAIN zoos \ {z}
                  /\ \A y \in DOMAIN zoos' : zoos'[y] = zoos[y]]_vars

\* C9 witness: a zoo has just been deleted while an animal refers to it and
\* another zoo remains.
C9_Witness ==
    /\ last.op = "DeleteZoo"
    /\ last.status = 200
    /\ \E a \in DOMAIN animals : animals[a].zoo = last.id
    /\ DOMAIN zoos # {}

\* C10: Register with an unused username followed by Login with the same
\* credentials succeeds with a token whose embedded identifier Authorize
\* resolves to the user that Register created.
C10_RegisterThenLogin ==
    [][last'.op = "Login" =>
       \A u \in Usernames, p \in Passwords :
          ( /\ last.op = "Register"
            /\ last.status = 201
            /\ last.id \in DOMAIN users
            /\ users[last.id].username = u
            /\ Compare(p, users[last.id].password)
            /\ Login(u, p) )
          => /\ last'.status = 200
             /\ last'.id = last.id
             /\ \E t \in tokens' :
                   /\ t.id = last.id
                   /\ t.iat = now
                   /\ Authorize(t) = NextHandler]_vars

\* C11: Login with a username that has no user record and Login with an
\* existing username and a wrong password end the same way: same status, same
\* message, no user and no token, so the response does not tell the cases apart.
C11_LoginFailuresAlike ==
    \A u1 \in Usernames, u2 \in Usernames, p1 \in Passwords, p2 \in Passwords :
        ( /\ UserByName(u1) = {}
          /\ UserByName(u2) # {}
          /\ \A x \in UserByName(u2) : ~Compare(p2, users[x].password) )
        => /\ LoginOutcome(u1, p1) = LoginOutcome(u2, p2)
           /\ LoginOutcome(u1, p1).status # 200

\* C11 witness: a Login given both fields has just failed while one username is
\* registered and the other is not.
C11_Witness ==
    /\ last.op = "Login"
    /\ last.status # 200
    /\ last.msg # "Username and password are required"
    /\ \E u1 \in Usernames, u2 \in Usernames : UserByName(u1) = {} /\ UserByName(u2) # {}

\* C12: Authorize on a request with no authorization header, or with no token
\* after the "Bearer " prefix, answers 401 and the protected handler does not
\* run; the request never ends without an answer.
C12_MissingTokenIsClientError ==
    [][\A hdr \in {NoHeader, EmptyBearer} :
          /\ hdr \notin Passing
          /\ Rejected(hdr) => ( last'.status = 401 /\ habitat' = habitat )]_vars

\* A token signed with a key other than the server's.
Missigned(hdr) == hdr.kind = "bearer" /\ hdr.key # JwtSecret
\* A token presented more than one hour after its issuance.
Stale(hdr) == hdr.kind = "bearer" /\ now > hdr.iat + TokenTTL

\* C13: Authorize answers 401 to every token signed with another key and to
\* every token presented more than one hour after its issuance, and no
\* protected handler runs for such a request.
C13_RejectsMissignedAndStale ==
    [][\A hdr \in Headers :
          ( Missigned(hdr) \/ Stale(hdr) )
          => /\ Authorize(hdr) = 401
             /\ hdr \notin Passing
             /\ Rejected(hdr) => ( /\ last'.status = 401
                                   /\ habitat' = habitat
                                   /\ identity' = identity )
             /\ \A o \in PasswordInputs, n \in PasswordInputs :
                   ~ChangePassword(hdr, o, n)]_vars

\* C13 witness: the middleware has just refused a token as invalid while every
\* token issued so far is more than an hour old and its user still exists.
C13_Witness ==
    /\ last.op = "Authorize"
    /\ last.status = 401
    /\ last.msg = "Token invalido"
    /\ tokens # {}
    /\ \A t \in tokens : Stale(t) /\ t.id \in DOMAIN users

\* C14: once a user record is deleted it stays deleted, and Authorize answers
\* 404 to every correctly signed, unexpired token issued for that user; no
\* protected handler runs for it.
C14_DeletedUserLosesAccess ==
    [][\A t \in tokens :
          t.id \notin DOMAIN users
          => /\ t.id \notin DOMAIN users'
             /\ Verify(t) => Authorize(t) = 404
             /\ t \notin Passing
             /\ Rejected(t) => ( last'.status \in {401, 404} /\ habitat' = habitat )
             /\ \A o \in PasswordInputs, n \in PasswordInputs :
                   ~ChangePassword(t, o, n)]_vars

\* C14 witness: the middleware has just answered 404 while a correctly signed,
\* unexpired token of a deleted user is in circulation.
C14_Witness ==
    /\ last.op = "Authorize"
    /\ last.status = 404
    /\ \E t \in tokens : Verify(t) /\ t.id \notin DOMAIN users

\* The user records other than u are what they were, and u keeps its username.
OnlyHashOf(u) ==
    /\ DOMAIN users' = DOMAIN users
    /\ \A x \in DOMAIN users \ {u} : users'[x] = users[x]
    /\ users'[u].username = users[u].username

\* C15: ChangePassword runs only behind a successful Authorize; when the old
\* plaintext matches the stored hash of the token's user it changes that user's
\* hash and no other record; in every other case it fails and every stored
\* hash is unchanged.  A request Authorize refuses changes no record.
C15_ChangePasswordReverifies ==
    [][/\ ( last'.op = "Authorize" /\ now' = now ) => users' = users
       /\ ( last'.op = "ChangePassword" /\ now' = now ) =>
            /\ \E hdr \in Passing, o \in PasswordInputs, n \in PasswordInputs :
                  ChangePassword(hdr, o, n)
            /\ \A hdr \in Passing, o \in PasswordInputs, n \in PasswordInputs :
                  ChangePassword(hdr, o, n)
                  => IF Given(o) /\ Compare(o, users[hdr.id].password)
                     THEN /\ OnlyHashOf(hdr.id)
                          /\ Given(n) => /\ last'.status = 200
                                         /\ Compare(n, users'[hdr.id].password)
                     ELSE /\ last'.status # 200
                          /\ users' = users]_vars

\* C15 witness: a password has just been changed while two users are stored.
C15_Witness ==
    /\ last.op = "ChangePassword"
    /\ last.status = 200
    /\ Cardinality(DOMAIN users) = 2

\* C16: ResetPassword answers 404 and changes nothing for a username with no
\* record; for an existing username it succeeds with no token and replaces
\* that user's hash only, and the Login that follows succeeds with the new
\* password and fails with any other.
C16_ResetThenLogin ==
    [][/\ last'.op = "ResetPassword" =>
            \A u \in UsernameInputs, p \in Passwords :
               ResetPassword(u, p)
               => IF UserByName(u) = {}
                  THEN last'.status = 404 /\ users' = users
                  ELSE /\ last'.status = 200
                       /\ last'.id \in UserByName(u)
                       /\ OnlyHashOf(last'.id)
                       /\ Compare(p, users'[last'.id].password)
       /\ last'.op = "Login" =>
            \A u \in Usernames, p \in Passwords :
               ( /\ last.op = "ResetPassword"
                 /\ last.status = 200
                 /\ last.id \in UserByName(u)
                 /\ Login(u, p) )
               => IF Compare(p, users[last.id].password)
                  THEN last'.status = 200
                  ELSE last'.status # 200]_vars

\* C17: the password field of every stored user record is an output of the
\* hashing function for some plaintext and salt.
C17_PasswordsAreHashes ==
    \A u \in DOMAIN users :
        \E p \in Passwords, salt \in Salts : users[u].password = Hash(p, salt)

\* C17 witness: a password has just been reset while two users are stored, so
\* registration and reset have both written password fields.
C17_Witness ==
    /\ last.op = "ResetPassword"
    /\ last.status = 200
    /\ Cardinality(DOMAIN users) = 2

\* No two stored user records share a username.
UsernamesUnique ==
    \A x \in DOMAIN users, y \in DOMAIN users :
        users[x].username = users[y].username => x = y

\* C18: no two stored user records ever share a username, and Register fails
\* and adds no record when the username exists already or when username or
\* password is absent.
C18_UsernamesUnique ==
    [][/\ UsernamesUnique /\ UsernamesUnique'
       /\ last'.op = "Register" =>
            \A u \in UsernameInputs, p \in PasswordInputs :
               ( /\ Register(u, p)
                 /\ ~Given(u) \/ ~Given(p) \/ UserByName(u) # {} )
               => /\ last'.status = 400
                  /\ users' = users]_vars

\* C18 witness: a registration has just been refused by the unique index.
C18_Witness ==
    /\ last.op = "Register"
    /\ last.status = 400
    /\ last.msg = "E11000 duplicate key"
    /\ DOMAIN users # {}

\* C19: under every interleaving of the steps of concurrent CreateAnimal
\* requests, every zoo's animal collection is a list of animal identifiers in
\* which no identifier occurs more than once.
C19_CollectionsDuplicateFree ==
    \A z \in DOMAIN zoos :
        /\ zoos[z].animals \in Seq(1..(nextAnimalId - 1))
        /\ \A a \in Range(zoos[z].animals) : Count(zoos[z].animals, a) = 1

\* C19 witness: a CreateAnimal request has just appended to a zoo's collection
\* while another CreateAnimal request naming the same zoo, which read the
\* collection before that append, is about to append too.
C19_Witness ==
    /\ last.op = "CreateAnimal"
    /\ last.via = "controller"
    /\ last.status = 201
    /\ \E r \in Requests :
          /\ At(r, "CreateAnimal", "controller", "saveZoo")
          /\ ZooExists(inflight[r].zoo)
          /\ last.id \in Range(zoos[inflight[r].zoo].animals)
          /\ last.id \notin Range(inflight[r].list)

\* C20: at every step of a DeleteAnimal request, final step included, the
\* animal record is not absent while the collection of the zoo it referred to
\* still contains its identifier.
C20_UnlinkBeforeRemove ==
    [][\A r \in Requests :
          ( /\ inflight[r].op = "DeleteAnimal"
            /\ inflight'[r] # inflight[r]
            /\ inflight[r].animal \notin DOMAIN animals'
            /\ inflight[r].zoo \in DOMAIN zoos' )
          => inflight[r].animal \notin Range(zoos'[inflight[r].zoo].animals)]_vars

\* C21: CreateAnimal with a name, a species and a zoo identifier that resolves
\* to no zoo answers not-found and persists nothing: the animal collection and
\* every zoo are after the request what they were before it.
C21_CreateAnimalUnknownZoo ==
    [][last'.op = "CreateAnimal" =>
       \A f \in Names \X SpeciesSet, z \in KnownZooIds :
          ( /\ CreateAnimalRoute(f[1], f[2], z) \/ CreateAnimalCtl(f[1], f[2], z)
            /\ ~ZooExists(z) )
          => /\ last'.status = 404
             /\ animals' = animals
             /\ zoos' = zoos]_vars

\* A request served by one of the routers mounted under /api/zoos and
\* /api/animals has just been answered.
RouterAnswered ==
    /\ last' # last
    /\ last'.via = "route"
    /\ last'.op \notin {"Authorize", "Register"}

\* C22: a step that answers a request of the zoo or animal router, or changes
\* a zoo or animal record, is the step of a request whose header Authorize
\* accepted; a request Authorize refuses leaves every zoo and animal record as
\* it was.
C22_HabitatBehindAuthorize ==
    [][/\ ( RouterAnswered \/ habitat' # habitat )
          => \E hdr \in Headers : Authorize(hdr) = NextHandler
       /\ \A hdr \in Headers :
             ( Authorize(hdr) # NextHandler /\ Rejected(hdr) ) => habitat' = habitat]_vars

\* C22 witness: the middleware has just refused a request while zoo and animal
\* records are stored.
C22_Witness ==
    /\ last.op = "Authorize"
    /\ last.status = 401
    /\ DOMAIN zoos # {}
    /\ DOMAIN animals # {}

\* C23: every request that was served ended with a response: a value or a
\* failure with an HTTP status.
C23_EveryRequestAnswered ==
    last.op # "none" => last.status \in {200, 201, 400, 401, 404, 500}

\* A CreateAnimal request that overlapped another one naming the same zoo:
\* the other is still being served, or wrote the zoo's collection after this
\* request read it.
Overlapped(r) ==
    \/ \E q \in Requests \ {r} :
          /\ inflight[q].op = "CreateAnimal"
          /\ inflight[q].zoo = inflight[r].zoo
    \/ /\ inflight[r].via = "controller"
       /\ inflight[r].list # zoos[inflight[r].zoo].animals

\* C24: when a CreateAnimal request that overlapped another one naming the same
\* existing zoo reports success, the zoo's collection holds afterwards what it
\* held before and the new animal's identifier: no append is lost.
C24_NoLostAppend ==
    [][\A r \in Requests :
          ( /\ inflight[r].op = "CreateAnimal"
            /\ inflight'[r] = Idle
            /\ last'.op = "CreateAnimal"
            /\ last'.status = 201
            /\ ZooExists(inflight[r].zoo)
            /\ Overlapped(r) )
          => Range(zoos'[inflight[r].zoo].animals)
                = Range(zoos[inflight[r].zoo].animals) \cup {last'.id}]_vars

\* C25: a successful ChangePassword or ResetPassword takes no token out of
\* circulation and leaves every token Authorize accepted accepted; in every
\* state Authorize accepts each correctly signed, unexpired token whose user
\* record exists, whatever happened to the password since it was issued.
C25_PasswordChangeKeepsTokens ==
    [][/\ \A t \in tokens :
             ( Verify(t) /\ t.id \in DOMAIN users ) => Authorize(t) = NextHandler
       /\ ( /\ last'.op \in {"ChangePassword", "ResetPassword"}
            /\ last'.status = 200
            /\ now' = now )
          => \A t \in tokens :
                /\ t \in tokens'
                /\ t \in Passing => t \in Passing']_vars

\* C25 witness: a password has just been reset for a user who holds a token
\* issued before the reset, and Authorize accepts that token.
C25_Witness ==
    /\ last.op = "ResetPassword"
    /\ last.status = 200
    /\ \E t \in tokens : t.id = last.id /\ t \in Passing

====
